---- MODULE Spec2Model ----
(***************************************************************************)
(* Market-Pulse microservice: the GET /market-pulse/:ticker handler of     *)
(* src/index.js with its in-memory cache and its three upstream clients    *)
(* (historical prices, news, Gemini analysis).                             *)
(*                                                                         *)
(* Node runs one callback at a time, so each action below is one run of    *)
(* the handler between two awaits: the arrival of a request (validation,   *)
(* cache lookup, start of the two FMP calls), the completion of the        *)
(* historical call, of the news call, and of the Gemini call.  Time is     *)
(* Date.now() in milliseconds and moves between callbacks.                 *)
(*                                                                         *)
(* A string is a sequence of one-character strings.  A JS value is a       *)
(* record with a "type" field; a missing property is the string Undefined. *)
(*                                                                         *)
(* The React component App of the frontend (src/unnamed/part_000) is       *)
(* modelled beside the service: its state hooks, its three ways to start a *)
(* search and the completion of a fetch.  Spec is the service alone        *)
(* (the frontend stays as mounted), SpecFair is Spec with every started    *)
(* upstream call completing, SpecApp is the frontend alone against a       *)
(* server that may answer anything.                                        *)
(***************************************************************************)
EXTENDS Integers, Sequences, FiniteSets, TLC

VARIABLES
    FMP_API_KEY,      \* TRUE iff process.env.FMP_API_KEY is set
    GEMINI_API_KEY,   \* TRUE iff process.env.GEMINI_API_KEY is set
    clock,            \* Date.now(), in ms since the process started
    ticks,            \* how many times the clock has moved
    cache,            \* the Map: normalized ticker -> [timestamp, data]
    req,              \* request id -> the handler's locals and its response
    lastWriter,       \* history: ticker -> the request whose 200 came last
    app,              \* the state hooks of App: ticker, pulse, loading, error,
                      \* recentSearches
    localStorage,     \* the item 'marketPulseSearches'
    search,           \* search id -> one invocation of getMarketPulse
    remembered        \* history: the searches that succeeded, latest first

server == <<FMP_API_KEY, GEMINI_API_KEY, clock, ticks, cache, req, lastWriter>>
client == <<app, localStorage, search, remembered>>
vars == <<server, client>>

(***************************** bounds **************************************)
MaxReq == 2        \* requests per behaviour, numbered in arrival order
MaxTicks == 2      \* clock moves per behaviour
MaxHistLen == 21   \* longest historical series the provider returns
MaxNews == 6       \* longest news array the provider returns
MaxSearch == 3     \* searches the user starts per behaviour

(************************ program constants ********************************)
TTL == 600000          \* ms, the cache lifetime tested at line 124
HistoryLimit == 20     \* slice(0, 20) at lines 77 and 148
MaxTickerLen == 10     \* {1,10} of the regular expression at line 120
RecentLimit == 5       \* slice(0, 5) in updateRecentSearches of the frontend

Requests == 1..MaxReq
Searches == 1..MaxSearch
TickSteps == {1, TTL - 1}

(***************************** strings *************************************)
LowerCase == <<"a","b","c","d","e","f","g","h","i","j","k","l","m",
               "n","o","p","q","r","s","t","u","v","w","x","y","z">>
UpperCase == <<"A","B","C","D","E","F","G","H","I","J","K","L","M",
               "N","O","P","Q","R","S","T","U","V","W","X","Y","Z">>
Digits == {"0","1","2","3","4","5","6","7","8","9"}

\* String.prototype.toUpperCase on one character
UpperChar(c) ==
    IF \E k \in 1..26 : LowerCase[k] = c
    THEN UpperCase[CHOOSE k \in 1..26 : LowerCase[k] = c]
    ELSE c

\* req.params.ticker.toUpperCase()
ToUpperCase(s) == [i \in 1..Len(s) |-> UpperChar(s[i])]

\* Mutant: the {1,10} quantifier written {1,}
RegexTestNoMaxLength(ticker) ==
    /\ Len(ticker) >= 1
    /\ \A i \in 1..Len(ticker) :
          \/ \E k \in 1..26 : UpperCase[k] = ticker[i]
          \/ ticker[i] \in Digits
          \/ ticker[i] \in {".", "-"}

\* /^[A-Z0-9.-]{1,10}$/.test(ticker)
RegexTest(ticker) ==
    /\ Len(ticker) >= 1
    /\ Len(ticker) <= MaxTickerLen
    /\ \A i \in 1..Len(ticker) :
          \/ \E k \in 1..26 : UpperCase[k] = ticker[i]
          \/ ticker[i] \in Digits
          \/ ticker[i] \in {".", "-"}

\* The :ticker path parameters clients send (never empty: the route needs one)
RawTickers ==
    { <<"a","B">>,                                   \* valid once upper-cased
      <<"z",".","9","-">>,                           \* another valid symbol
      <<"A"," ","B">>,                               \* a character outside the set
      <<"A","B","C","D","E","F","G","H","I","J","K">> }   \* 11 characters

(************************** JS values and errors ****************************)
Undefined == "undefined"

\* new Error(message); about is the ticker interpolated into the message
Err(message, about) == [message |-> message, about |-> about]
NoError == Err("", <<>>)

Min(a, b) == IF a <= b THEN a ELSE b

\* Mutant: the end index taken inclusive, one element too many
SliceInclusive(s, n) == SubSeq(s, 1, Min(n + 1, Len(s)))

\* Array.prototype.slice(0, n)
Slice(s, n) == SubSeq(s, 1, Min(n, Len(s)))

\* parseFloat(close).toFixed(2): a price in thousandths to the two-decimal
\* string, held as its number of hundredths
ToFixed2(milli) == (milli + 5) \div 10

(************************** upstream services ******************************)
\* The provider's daily series of n points, newest first
Series(n) == [i \in 1..n |-> [date |-> 1000 - i, close |-> 100989 + 7 * i]]

HistLens == {0, 1, MaxHistLen}

\* What axios.get on historical-price-full can end with: no connection, a
\* status outside 2xx, a body without "historical", a body with the series
HistResponses ==
    { [kind |-> k, len |-> 0] : k \in {"network", "status", "nofield"} }
        \cup { [kind |-> "historical", len |-> n] : n \in HistLens }

\* What axios.get on stock_news can end with: no connection, a status
\* outside 2xx, an empty body, a body that is no array (an error document
\* sent with status 200), an array of headlines
NewsResponses ==
    { [kind |-> k, len |-> 0] : k \in {"network", "status", "empty", "object"} }
        \cup { [kind |-> "array", len |-> MaxNews] }

NewsItems(n) == [i \in 1..n |-> [title |-> i]]

JsArray(items) == [type |-> "array", items |-> items]
JsObject == [type |-> "object", items |-> <<>>]
NoNews == [type |-> "none", items |-> <<>>]

Analysis(type, pulse, reason, confidence) ==
    [type |-> type, pulse |-> pulse, reason |-> reason, confidence |-> confidence]

\* The values JSON.parse can return for the candidate's text
ParsedValues ==
    { Analysis("object", "Bullish", "momentum", "High"),
      Analysis("object", "Strong Buy", "hype", Undefined),
      Analysis("null", Undefined, Undefined, Undefined) }

NoAnalysis == Analysis("none", Undefined, Undefined, Undefined)

\* What axios.post on generateContent can end with: no connection or a
\* status outside 2xx, a body without candidates, a candidate whose text is
\* no JSON, a candidate whose text parses
GeminiResponses ==
    { [kind |-> k, parsed |-> NoAnalysis] :
          k \in {"network", "nocandidates", "unparseable"} }
        \cup { [kind |-> "json", parsed |-> v] : v \in ParsedValues }

(****************************** promises ***********************************)
Fulfilled(v) == [state |-> "fulfilled", value |-> v, reason |-> NoError]
Rejected(e, v) == [state |-> "rejected", value |-> v, reason |-> e]

\* Mutant: the historical client made to fail softly, as the news client does
GetHistoricalDataSoftFail(ticker, o) ==
    IF o.kind = "historical" THEN Fulfilled(Series(o.len)) ELSE Fulfilled(<<>>)

\* getHistoricalData after axios.get has ended with response o
GetHistoricalData(ticker, o) ==
    CASE o.kind = "network" -> Rejected(Err("Network Error", <<>>), <<>>)
      [] o.kind = "status" ->
            Rejected(Err("Request failed with status code 404", <<>>), <<>>)
      [] o.kind = "nofield" ->
            Rejected(Err("No time series data found for", ticker), <<>>)
      [] OTHER -> Fulfilled(Series(o.len))

\* Mutant: the catch block of the news client rethrows, as the historical
\* client's does
GetNewsDataRethrow(ticker, o) ==
    CASE o.kind = "network" -> Rejected(Err("Network Error", <<>>), NoNews)
      [] o.kind = "status" ->
            Rejected(Err("Request failed with status code 404", <<>>), NoNews)
      [] o.kind = "empty" -> Fulfilled(JsArray(<<>>))
      [] o.kind = "object" -> Fulfilled(JsObject)
      [] OTHER -> Fulfilled(JsArray(NewsItems(o.len)))

\* getNewsData after axios.get has ended with response o; it never rejects
GetNewsData(ticker, o) ==
    CASE o.kind \in {"network", "status"} -> Fulfilled(JsArray(<<>>))
      [] o.kind = "empty" -> Fulfilled(JsArray(<<>>))
      [] o.kind = "object" -> Fulfilled(JsObject)
      [] OTHER -> Fulfilled(JsArray(NewsItems(o.len)))

\* Mutant: the sentiment client answers a default analysis when the service
\* fails
GetGeminiAnalysisFallback(o) ==
    IF o.kind = "json"
    THEN Fulfilled(o.parsed)
    ELSE Fulfilled(Analysis("object", "Neutral", "unavailable", "Low"))

\* getGeminiAnalysis after axios.post has ended with response o
GetGeminiAnalysis(o) ==
    IF o.kind = "json"
    THEN Fulfilled(o.parsed)
    ELSE Rejected(Err("Failed to get analysis from Gemini API.", <<>>), NoAnalysis)

(************************** the request handler ****************************)
NoData == [type |-> "none"]

\* res.status(status).json(...): data is a 200 body, error an {error} body
Json(data) == [status |-> 200, data |-> data, error |-> NoError]
ErrorJson(status, e) == [status |-> status, data |-> NoData, error |-> e]
NoResponse == [status |-> 0, data |-> NoData, error |-> NoError]

\* A request before it arrives.  ticker, now, historicalData and newsData
\* are the handler's locals; the other fields record what the request did:
\* inflight the upstream HTTP calls in flight, calls the number of HTTP
\* calls issued, failed the awaited calls whose HTTP exchange failed, log the
\* line console.log printed, seenWriter and seenAt the request that wrote
\* the entry the lookup found and that entry's timestamp (0 and -1: none),
\* sawDone the requests already answered when this one arrived
InitReq ==
    [pc |-> "idle", raw |-> <<>>, ticker |-> <<>>, now |-> 0,
     historicalData |-> <<>>, newsData |-> NoNews,
     calls |-> [historical |-> 0, news |-> 0, gemini |-> 0],
     inflight |-> {}, failed |-> {}, log |-> "none", res |-> NoResponse,
     seenWriter |-> 0, seenAt |-> -1, sawDone |-> {}]

\* Mutant: the lifetime taken in seconds where the clock counts milliseconds
CacheHitSeconds(ticker, now) ==
    /\ ticker \in DOMAIN cache
    /\ now - cache[ticker].timestamp < TTL \div 1000

\* Mutant: the comparison made inclusive
CacheHitInclusive(ticker, now) ==
    /\ ticker \in DOMAIN cache
    /\ now - cache[ticker].timestamp <= TTL

\* cache.has(ticker) && (now - cache.get(ticker).timestamp < 600000)
CacheHit(ticker, now) ==
    /\ ticker \in DOMAIN cache
    /\ now - cache[ticker].timestamp < TTL

\* Mutant: the write skipped when the ticker already has an entry that is
\* fresh at the entry's own stamp (a guard against the duplicate fetch)
CacheSetIfAbsent(ticker, entry) ==
    IF ticker \in DOMAIN cache /\ entry.timestamp - cache[ticker].timestamp < TTL
    THEN cache
    ELSE [k \in DOMAIN cache \cup {ticker} |->
             IF k = ticker THEN entry ELSE cache[k]]

\* Mutant: the write also evicts the entries that have expired by the
\* writer's clock
CacheSetEvicting(ticker, entry) ==
    [k \in {t \in DOMAIN cache : entry.timestamp - cache[t].timestamp < TTL}
               \cup {ticker} |->
        IF k = ticker THEN entry ELSE cache[k]]

\* cache.set(ticker, entry): the Map after the call
CacheSet(ticker, entry) ==
    [k \in DOMAIN cache \cup {ticker} |-> IF k = ticker THEN entry ELSE cache[k]]

\* Mutant: the chart history taken whole, without slice(0, 20)
BuildResultWholeHistory(ticker, analysis, historicalData, newsData, t) ==
    [ticker |-> ticker,
     pulse |-> analysis.pulse,
     reason |-> analysis.reason,
     confidence |-> analysis.confidence,
     lastPrice |-> ToFixed2(historicalData[1].close),
     history |-> historicalData,
     news |-> newsData,
     timestamp |-> t]

\* The object literal of lines 139-151, built at instant t
BuildResult(ticker, analysis, historicalData, newsData, t) ==
    [ticker |-> ticker,
     pulse |-> analysis.pulse,
     reason |-> analysis.reason,
     confidence |-> analysis.confidence,
     lastPrice |-> ToFixed2(historicalData[1].close),
     history |-> Slice(historicalData, HistoryLimit),
     news |-> newsData,
     timestamp |-> t]

\* The TypeError the object literal throws, or NoError: analysis.pulse is
\* read first (line 141), historicalData[0].close after it (line 145)
BuildError(analysis, historicalData) ==
    IF analysis.type = "null"
    THEN Err("Cannot read properties of null (reading 'pulse')", <<>>)
    ELSE IF Len(historicalData) = 0
    THEN Err("Cannot read properties of undefined (reading 'close')", <<>>)
    ELSE NoError

\* The handler returns: its locals go out of scope
Return(q, res) ==
    [q EXCEPT !.pc = "done", !.res = res,
              !.historicalData = <<>>, !.newsData = NoNews]

\* Mutant: the catch block logs the error and sends nothing
CatchLogOnly(q, e) ==
    [q EXCEPT !.pc = "failed", !.historicalData = <<>>, !.newsData = NoNews]

\* catch (error) { res.status(500).json({ error: error.message }) }
Catch(q, e) == Return(q, ErrorJson(500, e))

\* Line 137, reached when Promise.all has fulfilled: getGeminiAnalysis
\* throws without a key, and posts to the API with one
StartAnalysis(q) ==
    IF ~GEMINI_API_KEY
    THEN Catch(q, Err("Gemini API key not configured.", <<>>))
    ELSE [q EXCEPT !.pc = "analysing",
                   !.inflight = @ \cup {"gemini"},
                   !.calls.gemini = @ + 1]

\* Mutant: the clients without their key test: both GETs are issued with
\* apikey=undefined
StartFetchNoKeyCheck(q) ==
    [q EXCEPT !.pc = "fetching",
              !.inflight = @ \cup {"historical", "news"},
              !.calls.historical = @ + 1,
              !.calls.news = @ + 1]

\* Lines 130-135 on a miss: both clients are called before the await; each
\* throws without a key, and each issues its GET with one
StartFetch(q) ==
    IF ~FMP_API_KEY
    THEN Catch(q, Err("FMP API key not configured.", <<>>))
    ELSE [q EXCEPT !.pc = "fetching",
                   !.inflight = @ \cup {"historical", "news"},
                   !.calls.historical = @ + 1,
                   !.calls.news = @ + 1]

\* The request whose entry is in the cache under ticker (0: no entry)
WriterOf(ticker) ==
    IF ticker \in DOMAIN lastWriter THEN lastWriter[ticker] ELSE 0

\* What the lookup of ticker finds, recorded in request record q
Seen(q, ticker) ==
    [q EXCEPT !.seenWriter = WriterOf(ticker),
              !.seenAt = IF ticker \in DOMAIN cache
                         THEN cache[ticker].timestamp ELSE -1]

\* Lines 117-128: normalisation, validation and the cache lookup
Lookup(q, raw, now) ==
    LET ticker == ToUpperCase(raw)
        base == [q EXCEPT !.raw = raw, !.ticker = ticker, !.now = now,
                          !.sawDone = {p \in Requests : req[p].pc = "done"}]
    IN  IF ~RegexTest(ticker)
        THEN Return(base, ErrorJson(400, Err("Invalid ticker format.", <<>>)))
        ELSE IF CacheHit(ticker, now)
        THEN Return([Seen(base, ticker) EXCEPT !.log = "hit"],
                    Json(cache[ticker].data))
        ELSE StartFetch([Seen(base, ticker) EXCEPT !.log = "miss"])

\* A request arrives: the handler runs to its first await or to its response
Arrive(r, raw) ==
    /\ req[r].pc = "idle"
    /\ \A p \in Requests : p < r => req[p].pc # "idle"
    /\ req' = [req EXCEPT ![r] = Lookup(req[r], raw, clock)]
    /\ UNCHANGED <<FMP_API_KEY, GEMINI_API_KEY, clock, ticks, cache, lastWriter>>
    /\ UNCHANGED client

\* Mutant: the sentiment call started on the historical series alone,
\* without waiting for the news call
HistDoneNoJoin(r, o) ==
    /\ "historical" \in req[r].inflight
    /\ LET p == GetHistoricalData(req[r].ticker, o)
           q == [req[r] EXCEPT !.inflight = @ \ {"historical"},
                               !.historicalData = p.value,
                               !.failed = IF o.kind = "historical"
                                          THEN @ ELSE @ \cup {"historical"}]
       IN  req' = [req EXCEPT ![r] =
                IF p.state = "rejected" THEN Catch(q, p.reason)
                ELSE StartAnalysis(q)]
    /\ UNCHANGED <<FMP_API_KEY, GEMINI_API_KEY, clock, ticks, cache, lastWriter>>
    /\ UNCHANGED client

\* Mutant: a failed historical call tried once more before giving up
HistDoneRetry(r, o) ==
    /\ "historical" \in req[r].inflight
    /\ LET p == GetHistoricalData(req[r].ticker, o)
           q == [req[r] EXCEPT !.inflight = @ \ {"historical"},
                               !.historicalData = p.value,
                               !.failed = IF o.kind = "historical"
                                          THEN @ ELSE @ \cup {"historical"}]
       IN  req' = [req EXCEPT ![r] =
                IF p.state = "rejected"
                THEN IF q.calls.historical < 2
                     THEN [q EXCEPT !.inflight = @ \cup {"historical"},
                                    !.calls.historical = @ + 1]
                     ELSE Catch(q, p.reason)
                ELSE IF "news" \in q.inflight THEN q
                ELSE StartAnalysis(q)]
    /\ UNCHANGED <<FMP_API_KEY, GEMINI_API_KEY, clock, ticks, cache, lastWriter>>
    /\ UNCHANGED client

\* axios.get of getHistoricalData ends with response o.  A rejection rejects
\* Promise.all at once; a series waits for the news call
HistDone(r, o) ==
    /\ "historical" \in req[r].inflight
    /\ LET p == GetHistoricalData(req[r].ticker, o)
           q == [req[r] EXCEPT !.inflight = @ \ {"historical"},
                               !.historicalData = p.value,
                               !.failed = IF o.kind = "historical"
                                          THEN @ ELSE @ \cup {"historical"}]
       IN  req' = [req EXCEPT ![r] =
                IF p.state = "rejected" THEN Catch(q, p.reason)
                ELSE IF "news" \in q.inflight THEN q
                ELSE StartAnalysis(q)]
    /\ UNCHANGED <<FMP_API_KEY, GEMINI_API_KEY, clock, ticks, cache, lastWriter>>
    /\ UNCHANGED client

\* axios.get of getNewsData ends with response o.  After a rejected
\* historical call the handler has returned and the outcome is dropped;
\* otherwise Promise.all rejects on a rejection and waits for the
\* historical call on a value
NewsDone(r, o) ==
    /\ "news" \in req[r].inflight
    /\ LET p == GetNewsData(req[r].ticker, o)
           q == [req[r] EXCEPT !.inflight = @ \ {"news"}]
           got == [q EXCEPT !.newsData = p.value,
                            !.failed = IF o.kind \in {"network", "status"}
                                       THEN @ \cup {"news"} ELSE @]
       IN  req' = [req EXCEPT ![r] =
                IF q.pc # "fetching" THEN q
                ELSE IF p.state = "rejected" THEN Catch(got, p.reason)
                ELSE IF "historical" \in q.inflight THEN got
                ELSE StartAnalysis(got)]
    /\ UNCHANGED <<FMP_API_KEY, GEMINI_API_KEY, clock, ticks, cache, lastWriter>>
    /\ UNCHANGED client

\* axios.post of getGeminiAnalysis ends with response o: lines 137-159
GeminiDone(r, o) ==
    /\ "gemini" \in req[r].inflight
    /\ LET q == [req[r] EXCEPT !.inflight = @ \ {"gemini"},
                               !.failed = IF o.kind = "json"
                                          THEN @ ELSE @ \cup {"gemini"}]
           p == GetGeminiAnalysis(o)
           thrown == BuildError(p.value, q.historicalData)
           result == BuildResult(q.ticker, p.value, q.historicalData,
                                 q.newsData, clock)
       IN  IF p.state = "rejected"
           THEN /\ req' = [req EXCEPT ![r] = Catch(q, p.reason)]
                /\ UNCHANGED <<cache, lastWriter>>
           ELSE IF thrown # NoError
           THEN /\ req' = [req EXCEPT ![r] = Catch(q, thrown)]
                /\ UNCHANGED <<cache, lastWriter>>
           ELSE /\ cache' = CacheSet(q.ticker, [timestamp |-> q.now, data |-> result])
                /\ req' = [req EXCEPT ![r] = Return(q, Json(result))]
                /\ lastWriter' = [k \in DOMAIN lastWriter \cup {q.ticker} |->
                                     IF k = q.ticker THEN r ELSE lastWriter[k]]
    /\ UNCHANGED <<FMP_API_KEY, GEMINI_API_KEY, clock, ticks>>
    /\ UNCHANGED client

\* Time passes between two callbacks
Tick(d) ==
    /\ ticks < MaxTicks
    /\ clock' = clock + d
    /\ ticks' = ticks + 1
    /\ UNCHANGED <<FMP_API_KEY, GEMINI_API_KEY, cache, req, lastWriter>>
    /\ UNCHANGED client

(****************************** the frontend *******************************)
\* JS null, and the body of a 200 as far as the component shows it
Null == [type |-> "null"]
PulseData(ticker, pulse) == [type |-> "object", ticker |-> ticker, pulse |-> pulse]

\* What the user types into the input
Typed == {<<>>, <<"a">>, <<"b">>, <<"f">>}

\* What localStorage holds when the component mounts: nothing, or the list
\* an earlier visit saved
StoredSearches ==
    { <<>>, << <<"A">>, <<"B">>, <<"C">>, <<"D">>, <<"E">> >> }

\* What fetch and response.json() can end with: a 200 with a result, a
\* status outside 2xx with or without an error field, no connection
FetchResults ==
    { [kind |-> "ok", pulse |-> p, error |-> ""] : p \in {"Bullish", "Bearish"} }
        \cup { [kind |-> "error", pulse |-> "", error |-> "Invalid ticker format."],
               [kind |-> "error", pulse |-> "", error |-> ""],
               [kind |-> "network", pulse |-> "", error |-> ""] }

NoOutcome == [kind |-> "none", pulse |-> "", error |-> ""]

\* err.message of the catch block: errData.error || 'Failed to fetch data
\* from the server.' for a status outside 2xx, the TypeError of fetch itself
ErrorMessage(o) ==
    IF o.kind = "network" THEN "Failed to fetch"
    ELSE IF o.error # "" THEN o.error
    ELSE "Failed to fetch data from the server."

\* An invocation of getMarketPulse: searchTicker is its argument,
\* recentSearches the list its closure holds, outcome what its fetch ended
\* with
InitSearch ==
    [pc |-> "idle", searchTicker |-> <<>>, recentSearches |-> <<>>,
     outcome |-> NoOutcome]

\* [newTicker, ...recentSearches.filter(t => t !== newTicker)].slice(0, 5)
UpdatedSearches(recentSearches, newTicker) ==
    Slice(<<newTicker>> \o SelectSeq(recentSearches, LAMBDA t : t # newTicker),
          RecentLimit)

\* The component after its mount effect has read the stored list
Mounted(stored) ==
    /\ app = [ticker |-> <<>>, pulse |-> Null, loading |-> FALSE, error |-> "",
              recentSearches |-> stored]
    /\ localStorage = stored
    /\ search = [id \in Searches |-> InitSearch]
    /\ remembered = stored

\* getMarketPulse(searchTicker) up to its await of fetch, called by a
\* handler that leaves value in the input
GetMarketPulse(value, searchTicker) ==
    IF searchTicker = <<>>
    THEN /\ app' = [app EXCEPT !.ticker = value,
                               !.error = "Please enter a stock ticker."]
         /\ UNCHANGED search
    ELSE /\ \E id \in Searches :
               /\ search[id].pc = "idle"
               /\ \A p \in Searches : p < id => search[p].pc # "idle"
               /\ search' = [search EXCEPT ![id] =
                      [pc |-> "fetching", searchTicker |-> searchTicker,
                       recentSearches |-> app.recentSearches,
                       outcome |-> NoOutcome]]
         /\ app' = [app EXCEPT !.ticker = value, !.loading = TRUE,
                               !.error = "", !.pulse = Null]

\* onChange of the input: setTicker(e.target.value.toUpperCase())
Type(value) ==
    /\ app' = [app EXCEPT !.ticker = ToUpperCase(value)]
    /\ UNCHANGED <<localStorage, search, remembered>>
    /\ UNCHANGED server

\* onClick of the Analyze button, which is disabled while loading
ClickAnalyze ==
    /\ ~app.loading
    /\ GetMarketPulse(app.ticker, app.ticker)
    /\ UNCHANGED <<localStorage, remembered>>
    /\ UNCHANGED server

\* onKeyPress of the input with the Enter key
PressEnter ==
    /\ GetMarketPulse(app.ticker, app.ticker)
    /\ UNCHANGED <<localStorage, remembered>>
    /\ UNCHANGED server

\* onClick of the i-th recent-search chip: handleRecentSearchClick(t)
ClickRecent(i) ==
    /\ i <= Len(app.recentSearches)
    /\ LET t == app.recentSearches[i] IN GetMarketPulse(t, t)
    /\ UNCHANGED <<localStorage, remembered>>
    /\ UNCHANGED server

\* The fetch of search id ends with o: the rest of getMarketPulse, with
\* updateRecentSearches on a 200
FetchDone(id, o) ==
    /\ search[id].pc = "fetching"
    /\ LET s == search[id]
           updatedSearches == UpdatedSearches(s.recentSearches, s.searchTicker)
       IN  IF o.kind = "ok"
           THEN /\ app' = [app EXCEPT
                              !.pulse = PulseData(s.searchTicker, o.pulse),
                              !.recentSearches = updatedSearches,
                              !.loading = FALSE]
                /\ localStorage' = updatedSearches
                /\ remembered' = UpdatedSearches(remembered, s.searchTicker)
           ELSE /\ app' = [app EXCEPT !.error = ErrorMessage(o),
                                      !.loading = FALSE]
                /\ UNCHANGED <<localStorage, remembered>>
    /\ search' = [search EXCEPT ![id].pc = "done", ![id].outcome = o]
    /\ UNCHANGED server

Init ==
    /\ FMP_API_KEY \in BOOLEAN
    /\ GEMINI_API_KEY \in BOOLEAN
    /\ clock = 0
    /\ ticks = 0
    /\ cache = [k \in {} |-> 0]
    /\ req = [r \in Requests |-> InitReq]
    /\ lastWriter = [k \in {} |-> 0]
    /\ Mounted(<<>>)

Next ==
    \/ \E r \in Requests, raw \in RawTickers : Arrive(r, raw)
    \/ \E r \in Requests, o \in HistResponses : HistDone(r, o)
    \/ \E r \in Requests, o \in NewsResponses : NewsDone(r, o)
    \/ \E r \in Requests, o \in GeminiResponses : GeminiDone(r, o)
    \/ \E d \in TickSteps : Tick(d)

Spec == Init /\ [][Next]_vars

\* Every upstream call that was started comes to an end: axios settles each
\* promise, with a response or with an error
Fairness ==
    \A r \in Requests :
        /\ WF_vars(\E o \in HistResponses : HistDone(r, o))
        /\ WF_vars(\E o \in NewsResponses : NewsDone(r, o))
        /\ WF_vars(\E o \in GeminiResponses : GeminiDone(r, o))

SpecFair == Init /\ [][Next]_vars /\ Fairness

\* The frontend alone: the service is left as started
InitApp ==
    /\ FMP_API_KEY = TRUE
    /\ GEMINI_API_KEY = TRUE
    /\ clock = 0
    /\ ticks = 0
    /\ cache = [k \in {} |-> 0]
    /\ req = [r \in Requests |-> InitReq]
    /\ lastWriter = [k \in {} |-> 0]
    /\ \E stored \in StoredSearches : Mounted(stored)

NextApp ==
    \/ \E value \in Typed : Type(value)
    \/ ClickAnalyze
    \/ PressEnter
    \/ \E i \in 1..RecentLimit : ClickRecent(i)
    \/ \E id \in Searches, o \in FetchResults : FetchDone(id, o)

SpecApp == InitApp /\ [][NextApp]_vars

(***************************** the claims **********************************)
Arrived == {r \in Requests : req[r].pc # "idle"}
Done == {r \in Requests : req[r].pc = "done"}
NoCalls == [historical |-> 0, news |-> 0, gemini |-> 0]

\* Request b looked the cache up while it held the entry written by request
\* a: a had answered 200 on a miss, no other request had written since
Follows(a, b) ==
    /\ a # b
    /\ a \in Done /\ req[a].log = "miss" /\ req[a].res.status = 200
    /\ b \in Arrived
    /\ req[b].ticker = req[a].ticker
    /\ req[b].seenWriter = a

ServedFrom(a, b) ==
    /\ req[b].log = "hit"
    /\ req[b].res = req[a].res
    /\ req[b].calls = NoCalls

\* C1 as stated: a second request for the same ticker that arrives less than
\* 600,000 ms after the first request's result was assembled gets the first
\* request's result and issues no upstream call.
C1_WithinTenMinutesOfAssembly ==
    \A a, b \in Requests :
        Follows(a, b) /\ req[b].now - req[a].res.data.timestamp < 600000
            => ServedFrom(a, b)

\* What holds of the code in the place of C1: a second request for the same
\* ticker that finds the first request's entry and arrives less than
\* 600,000 ms after the first request ARRIVED (the instant the entry is
\* stamped with, see C14) gets a result identical to the first request's and
\* issues no historical, news or sentiment call.
C1_CacheIdempotence ==
    \A a, b \in Requests :
        Follows(a, b) /\ req[b].now - req[a].now < 600000
            => ServedFrom(a, b)

\* A second request served from the cache at the last fresh millisecond
C1_Witness ==
    \E a, b \in Requests :
        /\ Follows(a, b)
        /\ req[b].now - req[a].now = 599999
        /\ req[b].raw # req[b].ticker
        /\ ServedFrom(a, b)

\* The cache entry request a wrote: stamped with a's arrival, holding a's body
EntryOf(a) == [timestamp |-> req[a].now, data |-> req[a].res.data]

\* C2, the lookups: a request with a valid ticker is answered from the cache
\* exactly when the lookup found an entry less than 600,000 ms old; it is
\* then answered 200 with that entry's result and without any upstream call;
\* a request that found an entry 600,000 ms old or older issues one
\* historical and one news call of its own.
C2_Lookups ==
    \A b \in Arrived :
        req[b].log # "none" =>
            /\ req[b].log = "hit"
                  <=> (req[b].seenAt >= 0 /\ req[b].now - req[b].seenAt < 600000)
            /\ req[b].log = "hit" =>
                  /\ req[b].res.status = 200
                  /\ req[b].res.data = req[req[b].seenWriter].res.data
                  /\ req[b].calls = NoCalls
            /\ (req[b].seenAt >= 0 /\ req[b].now - req[b].seenAt >= 600000) =>
                  /\ req[b].log = "miss"
                  /\ req[b].calls.historical = 1
                  /\ req[b].calls.news = 1

\* C2, the stale entry: an entry stays in the cache as it is until a request
\* for its ticker answers 200 on a miss and puts its own result in its place.
C2_EntryKept ==
    \A t \in DOMAIN cache :
        /\ t \in DOMAIN cache'
        /\ cache'[t] # cache[t] =>
              \E r \in Requests :
                  /\ req[r].pc = "analysing" /\ req[r].ticker = t
                  /\ req'[r].res.status = 200
                  /\ cache'[t] = [timestamp |-> req[r].now, data |-> req'[r].res.data]

\* C2: the hit/expiry rule.  A valid request is answered from the cache iff
\* an entry exists and request time - entry timestamp < 600,000 ms; at
\* 600,000 ms or more it fetches afresh, and the stale entry stays until a
\* later successful write for its ticker supersedes it.
C2_HitExpiryRule == [](C2_Lookups) /\ [][C2_EntryKept]_vars

\* A request arrives exactly 600,000 ms after the entry's stamp, misses, and
\* the stale entry is still the one in the cache while it fetches
C2_Witness ==
    \E b \in Arrived :
        /\ req[b].seenAt >= 0 /\ req[b].now - req[b].seenAt = 600000
        /\ req[b].pc = "fetching"
        /\ cache[req[b].ticker] = EntryOf(req[b].seenWriter)

\* The symbol grammar ^[A-Z0-9.-]{1,10}$ as the claims state it
GrammarChars ==
    {"A","B","C","D","E","F","G","H","I","J","K","L","M","N","O","P","Q","R",
     "S","T","U","V","W","X","Y","Z","0","1","2","3","4","5","6","7","8","9",
     ".", "-"}
MatchesGrammar(s) ==
    /\ Len(s) \in 1..10
    /\ \A i \in 1..Len(s) : s[i] \in GrammarChars

\* C3, the responses: a request whose upper-cased ticker is outside the
\* grammar is answered 400 'Invalid ticker format.', has issued no upstream
\* call and has taken neither the hit nor the miss branch of the lookup; a
\* request whose upper-cased ticker is inside the grammar is never answered
\* 400.
C3_Responses ==
    \A r \in Arrived :
        IF MatchesGrammar(ToUpperCase(req[r].raw))
        THEN req[r].res.status # 400
        ELSE /\ req[r].res = ErrorJson(400, Err("Invalid ticker format.", <<>>))
             /\ req[r].calls = NoCalls
             /\ req[r].inflight = {}
             /\ req[r].log = "none"

\* C3, the frame: the step that answers 400 leaves the cache as it was.
C3_CacheUntouched ==
    \A r \in Requests :
        req[r].pc = "idle" /\ req'[r].res.status = 400 => cache' = cache

\* C3: validation precedes everything.  An upper-cased ticker outside
\* ^[A-Z0-9.-]{1,10}$ is answered 400 'Invalid ticker format.' with no
\* upstream call, no cache hit and no cache change; one inside it is never
\* answered 400.
C3_ValidationFirst == [](C3_Responses) /\ [][C3_CacheUntouched]_vars

\* A rejected 11-character ticker beside an entry in the cache, and a
\* lower-case ticker that was accepted after upper-casing
C3_Witness ==
    \E r, a \in Done :
        /\ Len(req[r].raw) = 11 /\ req[r].res.status = 400
        /\ req[a].raw # req[a].ticker /\ req[a].res.status = 200
        /\ cache # <<>>

\* The message of the historical client's failure on response kind k
HistoricalMessage(k, ticker) ==
    CASE k = "network" -> Err("Network Error", <<>>)
      [] k = "status" -> Err("Request failed with status code 404", <<>>)
      [] k = "nofield" -> Err("No time series data found for", ticker)

\* C4, the failing step: when the historical call of a request ends
\* unreachable, with a non-success status or without a history field, that
\* step answers 500 with the failure's message, leaves the cache as it was
\* and drops whatever the news call returned.
C4_FailingStep ==
    \A r \in Requests : \A o \in HistResponses :
        o.kind # "historical" /\ HistDone(r, o) =>
            /\ req'[r].pc = "done"
            /\ req'[r].res = ErrorJson(500, HistoricalMessage(o.kind, req[r].ticker))
            /\ req'[r].newsData = NoNews
            /\ cache' = cache

\* C4, afterwards: a request whose historical call failed stays answered 500
\* with a historical message, never issues the sentiment call, and its
\* ticker's cache entry is never one it wrote.
C4_Afterwards ==
    \A r \in Arrived :
        "historical" \in req[r].failed =>
            /\ req[r].log = "miss"
            /\ req[r].res.status = 500
            /\ \E k \in {"network", "status", "nofield"} :
                  req[r].res.error = HistoricalMessage(k, req[r].ticker)
            /\ req[r].calls.gemini = 0
            /\ "gemini" \notin req[r].inflight
            /\ WriterOf(req[r].ticker) # r

\* C4: historical-failure fatality.  On a miss, a failed historical call
\* ends the request with 500 and the failure's message; the sentiment call
\* is never issued, the news result is dropped, the cache is not written.
C4_HistoricalFatal == [](C4_Afterwards) /\ [][C4_FailingStep]_vars

\* A request whose historical call found no history field after its news
\* call had returned headlines, for a ticker that has an older cache entry
C4_Witness ==
    \E r \in Done :
        /\ "historical" \in req[r].failed
        /\ req[r].res.error = Err("No time series data found for", req[r].ticker)
        /\ req[r].calls.news = 1 /\ "news" \notin req[r].inflight
        /\ req[r].seenWriter # 0
        /\ cache[req[r].ticker] = EntryOf(req[r].seenWriter)

\* C5 as stated: a request on a miss whose news call failed while its
\* historical call and its sentiment call succeeded is answered 200 with
\* news = [].
C5_NewsFailureAlways200 ==
    \A r \in Done :
        /\ req[r].log = "miss" /\ "news" \in req[r].failed
        /\ req[r].calls.historical = 1 /\ "historical" \notin req[r].failed
        /\ req[r].calls.gemini = 1 /\ "gemini" \notin req[r].failed
        => /\ req[r].res.status = 200
           /\ req[r].res.data.news = JsArray(<<>>)

\* C5 as amended, the absorption: a failed news call leaves the request in
\* its pipeline with newsData = []; unless the historical call fails the
\* request goes on to the sentiment call (when the AI key is configured).
C5_Absorbed ==
    \A r \in Arrived :
        "news" \in req[r].failed =>
            /\ req[r].pc \in {"fetching", "analysing"}
                  => req[r].newsData = JsArray(<<>>)
            /\ (req[r].pc = "done" /\ "historical" \notin req[r].failed
                    /\ GEMINI_API_KEY)
                  => req[r].calls.gemini = 1

\* C5 as amended, the completion: when the news call failed, the historical
\* call returned a series of at least one point and the sentiment call
\* returns a JSON value other than null, the request is answered 200 with
\* news = [] and the pulse, reason and confidence of the sentiment call, and
\* that result is written to the cache.
C5_Completes ==
    \A r \in Requests : \A o \in GeminiResponses :
        /\ GeminiDone(r, o)
        /\ "news" \in req[r].failed
        /\ Len(req[r].historicalData) >= 1
        /\ o.kind = "json" /\ o.parsed.type # "null"
        => /\ req'[r].res.status = 200
           /\ req'[r].res.data.news = JsArray(<<>>)
           /\ req'[r].res.data.pulse = o.parsed.pulse
           /\ req'[r].res.data.reason = o.parsed.reason
           /\ req'[r].res.data.confidence = o.parsed.confidence
           /\ cache'[req[r].ticker].data = req'[r].res.data

\* C5 as amended: news-failure tolerance.  On a miss, a failed news call
\* with a successful historical call of at least one point and a sentiment
\* call returning a non-null JSON value ends in 200 with news = [] and the
\* sentiment call's pulse, reason and confidence, and the result is cached.
C5_NewsFailureTolerated == [](C5_Absorbed) /\ [][C5_Completes]_vars

\* A request answered 200 with news = [] after its news call failed, its
\* result being the cache entry
C5_Witness ==
    \E r \in Done :
        /\ "news" \in req[r].failed
        /\ req[r].res.status = 200
        /\ req[r].res.data.news = JsArray(<<>>)
        /\ req[r].res.data.pulse = "Bullish"
        /\ cache[req[r].ticker] = EntryOf(r)

\* C6, the failing step: when the sentiment call of a request ends
\* unreachable, without a candidate or with text that is no JSON, that step
\* answers 500 with an error string and no result, and leaves the cache as
\* it was.
C6_FailingStep ==
    \A r \in Requests : \A o \in GeminiResponses :
        o.kind # "json" /\ GeminiDone(r, o) =>
            /\ req'[r].pc = "done"
            /\ req'[r].res =
                  ErrorJson(500, Err("Failed to get analysis from Gemini API.", <<>>))
            /\ cache' = cache

\* C6, afterwards: a request whose sentiment call failed had a successful
\* historical call, stays answered 500 with a non-empty error string and
\* without a result body, and its ticker's cache entry is never one it wrote.
C6_Afterwards ==
    \A r \in Arrived :
        "gemini" \in req[r].failed =>
            /\ req[r].log = "miss"
            /\ "historical" \notin req[r].failed
            /\ req[r].res.status = 500
            /\ req[r].res.error.message # ""
            /\ req[r].res.data = NoData
            /\ WriterOf(req[r].ticker) # r

\* C6: sentiment-failure fatality.  On a miss with a successful historical
\* call, a failed sentiment call ends the request with 500 and an error
\* string, without a success body and without a cache write.
C6_SentimentFatal == [](C6_Afterwards) /\ [][C6_FailingStep]_vars

\* A request answered 500 after its sentiment call failed, the headlines
\* having been fetched, with no entry in the cache for its ticker
C6_Witness ==
    \E r \in Done :
        /\ "gemini" \in req[r].failed
        /\ req[r].res.status = 500
        /\ req[r].calls = [historical |-> 1, news |-> 1, gemini |-> 1]
        /\ req[r].ticker \notin DOMAIN cache

\* Requests a and b raced: b arrived after a, for the same ticker, both
\* missed, and a had not yet answered when b looked the cache up
Raced(a, b) ==
    /\ a < b
    /\ req[a].log = "miss" /\ req[b].log = "miss"
    /\ req[a].ticker = req[b].ticker
    /\ a \notin req[b].sawDone

\* C7, the fan-outs: each of two racing requests has issued its own
\* historical and news call, and each that answered 200 its own sentiment
\* call; once one of them has answered 200 the cache entry of their ticker
\* is the result of the request that answered 200 last.
C7_BothFetch ==
    \A a, b \in Requests :
        Raced(a, b) =>
            /\ \A r \in {a, b} :
                  /\ req[r].calls.historical = 1
                  /\ req[r].calls.news = 1
                  /\ req[r].res.status = 200 => req[r].calls.gemini = 1
            /\ (\E r \in {a, b} : req[r].res.status = 200) =>
                  /\ req[a].ticker \in DOMAIN cache
                  /\ req[WriterOf(req[a].ticker)].res.status = 200
                  /\ cache[req[a].ticker] = EntryOf(WriterOf(req[a].ticker))

\* C7, the writes: every request that answers 200 on a miss puts its own
\* result in the cache at that step, whatever entry was there.
C7_EachWrites ==
    \A r \in Requests :
        req[r].pc = "analysing" /\ req'[r].res.status = 200 =>
            cache'[req[r].ticker] =
                [timestamp |-> req[r].now, data |-> req'[r].res.data]

\* C7: the same-ticker race.  Two requests for one ticker that both miss
\* before either has written each run their own fan-out and each write the
\* cache on success; the entry left is that of the one answering 200 last.
C7_SameTickerRace == [](C7_BothFetch) /\ [][C7_EachWrites]_vars

\* Two racing requests both answered 200 with different results; the one
\* that arrived first answered last and its result is the entry
C7_Witness ==
    \E a, b \in Done :
        /\ Raced(a, b)
        /\ req[a].res.status = 200 /\ req[b].res.status = 200
        /\ req[a].res.data # req[b].res.data
        /\ WriterOf(req[a].ticker) = a
        /\ cache[req[a].ticker] = EntryOf(a)

Pulses == {"Bullish", "Bearish", "Neutral"}
Confidences == {"Low", "Medium", "High"}

\* C8: in every 200 response and in every cached result, pulse is one of
\* Bullish, Bearish, Neutral and confidence is one of Low, Medium, High.
C8_ClosedVocabulary ==
    /\ \A r \in Done :
          req[r].res.status = 200 =>
              /\ req[r].res.data.pulse \in Pulses
              /\ req[r].res.data.confidence \in Confidences
    /\ \A t \in DOMAIN cache :
          /\ cache[t].data.pulse \in Pulses
          /\ cache[t].data.confidence \in Confidences

\* C9: when a request answers 200 on a miss with the series h of n points,
\* n >= 1, the result's history is the first min(20, n) points of h in
\* order, its lastPrice is the close of h[0] rounded to two decimals, its
\* news is what the news call returned, its pulse, reason and confidence are
\* those of the sentiment call, its ticker is the normalized ticker, and
\* the cache then holds exactly this result under that ticker.
C9_Assembled ==
    \A r \in Requests : \A o \in GeminiResponses :
        GeminiDone(r, o) /\ req'[r].res.status = 200 =>
            LET h == req[r].historicalData
                n == Len(h)
                d == req'[r].res.data
            IN  /\ n >= 1
                /\ Len(d.history) = IF n < 20 THEN n ELSE 20
                /\ \A i \in 1..Len(d.history) : d.history[i] = h[i]
                /\ 10 * d.lastPrice - 5 <= h[1].close
                /\ h[1].close < 10 * d.lastPrice + 5
                /\ d.news = req[r].newsData
                /\ req[r].newsData # NoNews
                /\ o.kind = "json"
                /\ d.pulse = o.parsed.pulse
                /\ d.reason = o.parsed.reason
                /\ d.confidence = o.parsed.confidence
                /\ d.ticker = req[r].ticker
                /\ MatchesGrammar(d.ticker)
                /\ d.ticker = ToUpperCase(req[r].raw)
                /\ cache'[d.ticker].data = d

\* C9: result assembly.  Every step that answers 200 on a miss assembles
\* the result as C9_Assembled states and stores it in the cache.
C9_ResultAssembly == [][C9_Assembled]_vars

\* A 200 on a miss from a series of more than 20 points and MaxNews
\* headlines: 20 points of history, all the headlines, lastPrice 101.00 from
\* the close 100.996, cached under the upper-cased ticker
C9_Witness ==
    \E r \in Done :
        /\ req[r].log = "miss" /\ req[r].res.status = 200
        /\ Len(req[r].res.data.history) = 20
        /\ req[r].res.data.history[20] = Series(MaxHistLen)[20]
        /\ req[r].res.data.lastPrice = 10100
        /\ req[r].res.data.news = JsArray(NewsItems(MaxNews))
        /\ req[r].raw # req[r].ticker
        /\ cache[req[r].ticker].data = req[r].res.data

\* C10: while the sentiment call of a request is in flight, and ever after
\* it was issued, neither the historical nor the news call of that request
\* is in flight and the historical call has succeeded; the historical and
\* the news call are issued in the same step, so that neither is awaited
\* before the other has started.
C10_FanOutFanIn ==
    \A r \in Requests :
        /\ req[r].calls.historical = req[r].calls.news
        /\ ("historical" \in req[r].inflight \/ "news" \in req[r].inflight)
              => req[r].calls.gemini = 0
        /\ req[r].calls.gemini > 0 =>
              /\ req[r].inflight \subseteq {"gemini"}
              /\ req[r].calls.historical = 1
              /\ "historical" \notin req[r].failed
        /\ req[r].pc = "fetching" =>
              ("historical" \in req[r].inflight \/ "news" \in req[r].inflight)

\* A sentiment call in flight after a failed news call and a successful
\* historical call
C10_Witness ==
    \E r \in Requests :
        /\ req[r].inflight = {"gemini"}
        /\ "news" \in req[r].failed
        /\ Len(req[r].historicalData) = MaxHistLen

\* C11: no retries.  Within a request the historical, the news and the
\* sentiment call are each issued at most once, and a request whose
\* historical or sentiment call failed is answered at once with 500 and an
\* error, never with a result.
C11_NoRetries ==
    \A r \in Requests :
        /\ req[r].calls.historical <= 1
        /\ req[r].calls.news <= 1
        /\ req[r].calls.gemini <= 1
        /\ ("historical" \in req[r].failed \/ "gemini" \in req[r].failed) =>
              /\ req[r].pc = "done"
              /\ req[r].res.status = 500
              /\ req[r].res.error.message # ""
              /\ req[r].res.data = NoData
              /\ req[r].inflight \subseteq {"news"}

\* One request answered 500 after its only historical call failed, another
\* answered 500 after its only sentiment call failed
C11_Witness ==
    \E a, b \in Done :
        /\ "historical" \in req[a].failed
        /\ req[a].calls = [historical |-> 1, news |-> 1, gemini |-> 0]
        /\ req[a].res.status = 500
        /\ "gemini" \in req[b].failed
        /\ req[b].calls = [historical |-> 1, news |-> 1, gemini |-> 1]
        /\ req[b].res.status = 500

\* A sequence of at most 5 news items
NewsShape(news) == news.type = "array" /\ Len(news.items) <= 5

\* C12: news shape.  In every 200 response and in every cached result news
\* is a sequence of at most 5 items, and the news a request holds once its
\* news call has ended is a sequence, empty when the provider failed or sent
\* a payload that is no list of headlines.
C12_NewsShape ==
    /\ \A r \in Done :
          req[r].res.status = 200 => NewsShape(req[r].res.data.news)
    /\ \A t \in DOMAIN cache : NewsShape(cache[t].data.news)
    /\ \A r \in Requests :
          (req[r].pc \in {"fetching", "analysing"} /\ "news" \notin req[r].inflight)
              => NewsShape(req[r].newsData)

\* Ticker t is written by this step: it gets its first entry, or the entry
\* of another request
Written(t) ==
    /\ t \in DOMAIN cache'
    /\ t \notin DOMAIN cache \/ cache'[t] # cache[t] \/ lastWriter'[t] # lastWriter[t]

\* C14: cache stamp.  The timestamp of a cache entry is the instant at which
\* the entry is written, so that no entry is already 600,000 ms old when it
\* is written.
C14_StampedAtWrite ==
    [][\A t \in DOMAIN cache' :
           Written(t) =>
               /\ cache'[t].timestamp = clock
               /\ clock - cache'[t].timestamp < 600000]_vars

\* C17: per-ticker freshness never regresses.  A cache write never puts an
\* entry with an older timestamp in the place of an existing one, and an
\* entry less than 600,000 ms old is never replaced by the result of a
\* request that started before the request whose result it holds.
C17_FreshnessNeverRegresses ==
    [][\A t \in DOMAIN cache :
           Written(t) =>
               /\ cache'[t].timestamp >= cache[t].timestamp
               /\ clock - cache[t].timestamp < 600000
                     => req[lastWriter'[t]].now >= req[lastWriter[t]].now]_vars

\* C15, the step: a step changes the cache only when a request whose
\* historical and sentiment calls succeeded answers 200 on a miss; it then
\* writes that request's result under that request's normalized ticker and
\* leaves every other entry as it was.  A step in which a request is
\* answered 400, from the cache, or 500 leaves the whole cache as it was.
\* No entry is deleted, and an answered request takes no further step that
\* could write (so that a request writes at most once).
C15_Step ==
    /\ DOMAIN cache \subseteq DOMAIN cache'
    /\ \A r \in Requests :
          /\ req[r].pc = "done" => req'[r].pc = "done" /\ req'[r].res = req[r].res
          /\ (req[r].pc # "done" /\ req'[r].pc = "done"
                  /\ (req'[r].res.status \in {400, 500} \/ req'[r].log = "hit"))
                => cache' = cache
    /\ cache' # cache =>
          \E r \in Requests :
              /\ req[r].pc = "analysing" /\ req'[r].pc = "done"
              /\ req'[r].log = "miss" /\ req'[r].res.status = 200
              /\ req[r].calls = [historical |-> 1, news |-> 1, gemini |-> 1]
              /\ "historical" \notin req'[r].failed
              /\ "gemini" \notin req'[r].failed
              /\ req[r].ticker = ToUpperCase(req[r].raw)
              /\ DOMAIN cache' = DOMAIN cache \cup {req[r].ticker}
              /\ cache'[req[r].ticker].data = req'[r].res.data
              /\ \A t \in DOMAIN cache :
                    t # req[r].ticker => cache'[t] = cache[t]

\* C15: cache frame.  Every step of the service obeys C15_Step.
C15_CacheFrame == [][C15_Step]_vars

\* Two entries under two tickers, each the result of the request that wrote
\* it, the older one still there after it expired and the other was written
C15_Witness ==
    \E a, b \in Done :
        /\ req[a].ticker # req[b].ticker
        /\ DOMAIN cache = {req[a].ticker, req[b].ticker}
        /\ cache[req[a].ticker] = EntryOf(a)
        /\ cache[req[b].ticker] = EntryOf(b)
        /\ req[b].now - req[a].now >= 600000

\* C16: missing credentials fail at first use.  Without the data-provider
\* key nothing is ever cached, so every request for a valid ticker misses,
\* and each is answered 500 'FMP API key not configured.' in the step it
\* arrives, without any upstream HTTP call.  With the data-provider key but
\* without the AI key nothing is cached either, every answered request for
\* a valid ticker has status 500, no sentiment call is issued, and a request
\* whose historical and news calls both returned is answered 500 'Gemini
\* API key not configured.'
C16_MissingCredentials ==
    /\ ~FMP_API_KEY =>
          /\ DOMAIN cache = {}
          /\ \A r \in Arrived :
                MatchesGrammar(ToUpperCase(req[r].raw)) =>
                    /\ req[r].log = "miss"
                    /\ req[r].pc = "done"
                    /\ req[r].res =
                          ErrorJson(500, Err("FMP API key not configured.", <<>>))
                    /\ req[r].calls = NoCalls
                    /\ req[r].inflight = {}
    /\ (FMP_API_KEY /\ ~GEMINI_API_KEY) =>
          /\ DOMAIN cache = {}
          /\ \A r \in Arrived :
                MatchesGrammar(ToUpperCase(req[r].raw)) =>
                    /\ req[r].log = "miss"
                    /\ req[r].calls.gemini = 0
                    /\ req[r].pc \in {"fetching", "done"}
                    /\ req[r].pc = "done" =>
                          /\ req[r].res.status = 500
                          /\ req[r].res.data = NoData
                          /\ "historical" \notin req[r].failed =>
                                req[r].res = ErrorJson(500,
                                    Err("Gemini API key not configured.", <<>>))

\* Without the data-provider key (the AI key being set): two requests for
\* valid tickers, both answered 500 with the key error, nothing called,
\* nothing cached
C16_Witness ==
    /\ ~FMP_API_KEY /\ GEMINI_API_KEY
    /\ DOMAIN cache = {}
    /\ \A r \in Requests :
          /\ req[r].pc = "done" /\ req[r].log = "miss"
          /\ req[r].res.error.message = "FMP API key not configured."
          /\ req[r].calls = NoCalls

\* C18, the entries: every cache entry is stored under the ticker of its
\* result, that key matches ^[A-Z0-9.-]{1,10}$, and its result's history
\* has between 1 and 20 points.
C18_Entries ==
    \A t \in DOMAIN cache :
        /\ cache[t].data.ticker = t
        /\ MatchesGrammar(t)
        /\ Len(cache[t].data.history) >= 1
        /\ Len(cache[t].data.history) <= 20

\* C18, the empty series: when the sentiment call of a request whose
\* historical call returned an empty series ends, whatever it ends with, the
\* request is answered 500 and the cache stays as it was.
C18_EmptySeries ==
    \A r \in Requests : \A o \in GeminiResponses :
        GeminiDone(r, o) /\ Len(req[r].historicalData) = 0 =>
            /\ req'[r].res.status = 500
            /\ req'[r].res.data = NoData
            /\ cache' = cache

\* C18: well-formed cached results.  C18_Entries holds in every reachable
\* state, and every step obeys C18_EmptySeries.
C18_WellFormedEntries == [](C18_Entries) /\ [][C18_EmptySeries]_vars

\* An entry of 20 points cut from a longer series under an upper-cased key,
\* beside a request for another ticker that got an empty series and an
\* analysis, was answered 500 for reading historicalData[0].close, and left
\* no entry
C18_Witness ==
    \E a, b \in Done :
        /\ req[a].ticker \in DOMAIN cache
        /\ cache[req[a].ticker] = EntryOf(a)
        /\ req[a].raw # req[a].ticker
        /\ Len(cache[req[a].ticker].data.history) = 20
        /\ req[b].res = ErrorJson(500,
               Err("Cannot read properties of undefined (reading 'close')", <<>>))
        /\ req[b].ticker \notin DOMAIN cache

\* C19, the statuses: a request has been sent a response exactly when its
\* handler has returned, the status of a response is 200, 400 or 500, and a
\* request that has arrived and is not answered is waiting for an upstream
\* call that is in flight.
C19_Statuses ==
    \A r \in Requests :
        /\ req[r].pc \in {"idle", "fetching", "analysing", "done"}
        /\ req[r].pc = "done" <=> req[r].res # NoResponse
        /\ req[r].res # NoResponse => req[r].res.status \in {200, 400, 500}
        /\ req[r].pc = "fetching" =>
              req[r].inflight \cap {"historical", "news"} # {}
        /\ req[r].pc = "analysing" => "gemini" \in req[r].inflight

\* C19, at most one: a response once sent is never followed by another.
C19_AtMostOne ==
    \A r \in Requests :
        req[r].res # NoResponse => req'[r].res = req[r].res

\* C19, answered: from some instant on every request that has arrived is
\* answered.  As an arrival is never undone and an answer never taken back
\* (C19_AtMostOne), this says that each request that arrives is eventually
\* answered: no request stays unanswered for ever.
C19_Answered ==
    <>[](\A r \in Requests : req[r].pc # "idle" => req[r].pc = "done")

\* C19: exactly one response.  Every request receives at most one response,
\* with status 200, 400 or 500, and, every started upstream call coming to
\* an end, every request that has arrived eventually receives one.
C19_ExactlyOneResponse ==
    [](C19_Statuses) /\ [][C19_AtMostOne]_vars /\ C19_Answered

\* Three ways to an answer side by side: a request answered 500 after its
\* historical call failed while its news call is still in flight, and a
\* request answered 400
C19_Witness ==
    \E a, b \in Done :
        /\ req[a].res.status = 500
        /\ "historical" \in req[a].failed
        /\ req[a].inflight = {"news"}
        /\ req[b].res.status = 400

\* C13: search history.  After any sequence of searches recentSearches is
\* the list of the up-to-5 most recent distinct tickers whose search
\* succeeded, the most recent first and without duplicates (remembered: the
\* stored list, each success put in front of it as it comes in); a search
\* that ends in an error leaves it as it was.
C13_SearchHistory ==
    /\ app.recentSearches = remembered
    /\ Len(app.recentSearches) <= 5
    /\ \A i, j \in 1..Len(app.recentSearches) :
          app.recentSearches[i] = app.recentSearches[j] => i = j

Fetching == {id \in Searches : search[id].pc = "fetching"}
Started == {id \in Searches : search[id].pc # "idle"}
LastStarted == CHOOSE id \in Started : \A p \in Started : p <= id

\* What the component shows for the outcome o of a search for searchTicker;
\* the message for an empty input may have taken the place of the error
Shows(searchTicker, o) ==
    IF o.kind = "ok"
    THEN /\ app.pulse = PulseData(searchTicker, o.pulse)
         /\ app.error \in {"", "Please enter a stock ticker."}
    ELSE /\ app.pulse = Null
         /\ app.error \in {ErrorMessage(o), "Please enter a stock ticker."}

\* C20: frontend request state.  loading is true whenever a search is in
\* flight, and once every search that was started has completed the pulse
\* or error on display is the outcome of the search that was started last.
C20_RequestState ==
    /\ Fetching # {} => app.loading
    /\ (Fetching = {} /\ Started # {}) =>
          Shows(search[LastStarted].searchTicker, search[LastStarted].outcome)

====
